---- MODULE Spec2Model ----
(***************************************************************************)
(* The CSV job pipeline of batchfactory-solution-aws:                      *)
(*   - validator/handler.py  (Validator, triggered by an upload event)     *)
(*   - processor/handler.py  (Converter, triggered by a queue message)     *)
(*   - validator_processor/handler.py (the single-stage implementation)    *)
(* The status store (DynamoDB table), the queue (SQS) and the object       *)
(* store (S3) are modelled at their interface: put_item replaces an item,  *)
(* update_item SETs the named attributes and upserts, get_object and       *)
(* put_object read and write one object, send_message appends a message.   *)
(* Every external call is one atomic step that either succeeds or raises.  *)
(***************************************************************************)
EXTENDS Integers, Sequences, FiniteSets, TLC

\* ------------------------------------------------------------------ bounds
\* upload events (Validator / single-stage invocations) in one behaviour
MaxUploads == 2
\* Converter invocations (deliveries and redeliveries) in one behaviour
MaxDeliveries == 2
\* data lines of an uploaded file
MaxRows == 1

\* --------------------------------------------------------------- constants
REQUIRED_COLUMNS == <<"id", "value", "timestamp">>

PROCESSED_PREFIX == "processed/"

Bucket == "ingest"

\* An object key, split the way os.path.basename / os.path.splitext split it.
Keys == { [dir |-> "uploads/", stem |-> "a", ext |-> ".csv"] }

\* uuid.uuid4() of the n-th invocation (a fresh id each time)
Uuid(n) == <<"uuid", n>>

JobIds == { <<"name", k.stem>> : k \in Keys } \cup { Uuid(n) : n \in 1..(MaxUploads + 1) }

Terminal == {"FAILED", "COMPLETED", "COMPLETED_WITH_ERRORS"}

SuccessTerminal == {"COMPLETED", "COMPLETED_WITH_ERRORS"}

\* Python's None in a timestamp attribute ("finishedAt": None)
NoTime == <<>>

\* get_timestamp() / now_iso(): the clock reading taken by the n-th invocation of
\* a handler ("upload": the Validator or the single-stage handler, "delivery":
\* the Converter) for the attribute it is stored in
TimeOf(who, n, attr) == <<who, n, attr>>

\* Python's None in s3OutputPrefix / s3Source
NoPrefix == <<>>

\* reasons get_object (or the utf-8 decode after it) raises with
FetchErrors == {"AccessDenied", "NoSuchKey"}

\* ------------------------------------------------------------- file content
\* A file is its sequence of lines, each line the sequence of its cells as
\* csv.reader yields them; a blank line is the empty sequence.
HeaderLines ==
  { <<"id", "value", "timestamp">>,
    <<"id", "value">> }

DataLines ==
  { <<"1", "10", "t">>,
    <<"2", "", "t">> }

RECURSIVE SeqsUpTo(_, _)
SeqsUpTo(S, n) ==
  IF n = 0 THEN { <<>> }
  ELSE LET shorter == SeqsUpTo(S, n - 1)
       IN  shorter \cup { Append(s, x) : s \in { t \in shorter : Len(t) = n - 1 }, x \in S }

\* a cell longer than csv.field_size_limit(): csv.reader raises csv.Error on its line
Oversize == "OVERSIZE"

Files ==
  { <<>>, << <<"id", Oversize>> >> }
    \cup { <<h>> \o rows : h \in HeaderLines, rows \in SeqsUpTo(DataLines, MaxRows) }

\* ------------------------------------------------------------ csv.DictReader
\* reader.fieldnames or []  (None for an empty file)
Fieldnames(content) == IF content = <<>> THEN <<>> ELSE content[1]

Contains(seq, x) == \E i \in 1..Len(seq) : seq[i] = x

\* reading the header line raises csv.Error
HeaderRaises(content) == content # <<>> /\ Contains(content[1], Oversize)

\* reading the file to its end raises csv.Error
ReadRaises(content) == \E i \in 1..Len(content) : Contains(content[i], Oversize)

\* [col for col in REQUIRED_COLUMNS if col not in headers]
MissingColumns(headers) == SelectSeq(REQUIRED_COLUMNS, LAMBDA col : ~Contains(headers, col))

\* row.get(col) of the dict DictReader builds: dict(zip(fieldnames, row)), then
\* restval None for the fieldnames beyond the row. "" stands for None and for
\* the empty string alike: both are falsy and neither is ever emitted.
RowGet(headers, line, col) ==
  LET idx == { i \in 1..Len(headers) : headers[i] = col }
  IN  IF idx = {} THEN ""
      ELSE LET last == CHOOSE i \in idx : \A j \in idx : j <= i
           IN  IF last <= Len(line) THEN line[last] ELSE ""

\* the data rows DictReader yields: the lines after the header, blank ones skipped
DataRows(content) == IF content = <<>> THEN <<>> ELSE SelectSeq(Tail(content), LAMBDA l : l # <<>>)

\* all(row.get(col) for col in REQUIRED_COLUMNS)
RowValid(headers, line) == \A i \in 1..Len(REQUIRED_COLUMNS) : RowGet(headers, line, REQUIRED_COLUMNS[i]) # ""

RowRecord(headers, line) ==
  [id |-> RowGet(headers, line, "id"),
   value |-> RowGet(headers, line, "value"),
   timestamp |-> RowGet(headers, line, "timestamp")]

\* variant: the loop gives up at the first invalid row
RECURSIVE ConvertFromAbort(_, _, _)
ConvertFromAbort(headers, rows, acc) ==
  IF rows = <<>> THEN acc
  ELSE IF RowValid(headers, Head(rows))
       THEN ConvertFromAbort(headers, Tail(rows),
              [acc EXCEPT !.records = Append(@, RowRecord(headers, Head(rows))),
                          !.inspected = @ + 1])
       ELSE [acc EXCEPT !.error_count = @ + 1, !.inspected = @ + 1]

\* the row loop: a valid row is appended to records, any other row is counted
RECURSIVE ConvertFrom(_, _, _)
ConvertFrom(headers, rows, acc) ==
  IF rows = <<>> THEN acc
  ELSE ConvertFrom(headers, Tail(rows),
         IF RowValid(headers, Head(rows))
         THEN [acc EXCEPT !.records = Append(@, RowRecord(headers, Head(rows))),
                          !.inspected = @ + 1]
         ELSE [acc EXCEPT !.error_count = @ + 1, !.inspected = @ + 1])

\* variant: row_count as the number of records alone
ConvertRowsValidOnly(content) ==
  LET acc == ConvertFrom(Fieldnames(content), DataRows(content),
                         [records |-> <<>>, error_count |-> 0, inspected |-> 0])
  IN  [records |-> acc.records,
       error_count |-> acc.error_count,
       row_count |-> Len(acc.records),
       inspected |-> acc.inspected]

\* the loop of processor/handler.py: records, error_count, then row_count
ConvertRows(content) ==
  LET acc == ConvertFrom(Fieldnames(content), DataRows(content),
                         [records |-> <<>>, error_count |-> 0, inspected |-> 0])
  IN  [records |-> acc.records,
       error_count |-> acc.error_count,
       row_count |-> Len(acc.records) + acc.error_count,
       inspected |-> acc.inspected]

\* json.dumps(records, indent=...) : the array and its layout
JsonDumps(records, indent) == [items |-> records, indent |-> indent]

\* ------------------------------------------------------------------ messages
\* an f-string message: its fixed text and the values formatted into it
Message(text, cols, reason, rows, errors) ==
  [text |-> text, cols |-> cols, reason |-> reason, rows |-> rows, errors |-> errors]

PlainMessage(text) == Message(text, <<>>, "", 0, 0)

\* ------------------------------------------------------------- status store
\* An item is a function from attribute names to values; no item is the
\* function with the empty domain.
NoItem == [a \in {} |-> 0]

Exists(item) == DOMAIN item # {}

Has(item, a) == a \in DOMAIN item

\* variant: the update stored as the whole item
UpdateItemReplace(item, job_id, updates) ==
  [a \in DOMAIN updates \cup {"jobId"} |-> IF a \in DOMAIN updates THEN updates[a] ELSE job_id]

\* table.update_item(Key={"jobId": job_id}, UpdateExpression="SET ..."): the named
\* attributes are set, the others kept; a missing item is created (upsert)
UpdateItem(item, job_id, updates) ==
  [a \in DOMAIN item \cup DOMAIN updates \cup {"jobId"} |->
     IF a \in DOMAIN updates THEN updates[a]
     ELSE IF a = "jobId" THEN job_id
     ELSE item[a]]

\* variant: the put merged into the stored item
PutItemMerge(old, item) == UpdateItem(old, item["jobId"], item)

\* table.put_item(Item=item): the item replaces whatever was stored (old)
PutItem(old, item) == item

\* an attribute is set: present and not None
IsSet(item, a) ==
  /\ Has(item, a)
  /\ CASE a \in {"finishedAt", "startedAt"} -> item[a] # NoTime
       [] a \in {"s3OutputPrefix", "s3Source"} -> item[a] # NoPrefix
       [] OTHER -> TRUE

StatusOf(item) == IF Has(item, "status") THEN item["status"] ELSE "NONE"

\* os.path.splitext(os.path.basename(key))[0]
JobIdOf(key) == <<"name", key.stem>>

S3Uri(bucket, key) == <<bucket, key>>

OutputPrefix(job_id) == <<PROCESSED_PREFIX, job_id>>

\* an object of the output location: absent, or a body
NoObject == [exists |-> FALSE, body |-> JsonDumps(<<>>, 0)]

Object(body) == [exists |-> TRUE, body |-> body]

\* --------------------------------------------------------------------- state
VARIABLES
  impl,     \* which implementation is deployed: "two_stage" or "single_stage"
  file,     \* the content of the uploaded object
  table,    \* the status store: job id -> item
  output,   \* the output location: job id -> <prefix><job id>/output.json
  queue,    \* the messages waiting in the queue
  val,      \* the Validator invocation: where it is and its locals
  conv,     \* the Converter invocation: where it is and its locals
  single,   \* the single-stage invocation: where it is and its locals
  hist,     \* what has happened so far (counts of uploads, deliveries, sends and puts)
  seen,     \* what the Converter's returns left behind (kept by SpecRedelivery only)
  reader    \* the Status Reader: its last request and the response it returned

vars == <<impl, file, table, output, queue, val, conv, single, hist, seen, reader>>

ValIdle == [pc |-> "idle", ret |-> "none", key |-> CHOOSE k \in Keys : TRUE,
            missing |-> <<>>, err |-> ""]

ConvIdle == [pc |-> "idle", ret |-> "none", msg |-> <<>>, err |-> "",
             result |-> ConvertRows(<<>>)]

\* what the Converter left behind when it returned: the fields a redelivery must
\* reproduce
Snapshot(item, object) ==
  [status |-> StatusOf(item),
   rowCount |-> IF Has(item, "rowCount") THEN item["rowCount"] ELSE 0,
   errorCount |-> IF Has(item, "errorCount") THEN item["errorCount"] ELSE 0,
   prefix |-> IF Has(item, "s3OutputPrefix") THEN item["s3OutputPrefix"] ELSE NoPrefix,
   object |-> object]

\* n: the Converter invocations that returned; first, last: what the first and the
\* latest of them left behind
SeenInit == [n |-> 0, first |-> Snapshot(NoItem, NoObject), last |-> Snapshot(NoItem, NoObject)]

\* uploads, deliveries: invocations started; sent: the messages ever enqueued;
\* vsent, puts: messages sent and items put by the running (or last) Validator or
\* single-stage invocation
HistInit == [uploads |-> 0, deliveries |-> 0, sent |-> {}, vsent |-> 0, puts |-> 0]

\* ---------------------------------------------------- validator/handler.py
\* variant: the initial item put as already queued
InitialItemPending(job_id, bucket, key, ts) ==
  [jobId |-> job_id, status |-> "PENDING", s3Source |-> S3Uri(bucket, key),
   startedAt |-> ts, message |-> PlainMessage("Queued for processing")]

\* the item of the initial put_item
InitialItem(job_id, bucket, key, ts) ==
  [jobId |-> job_id, status |-> "VALIDATING", s3Source |-> S3Uri(bucket, key),
   startedAt |-> ts, message |-> PlainMessage("Validating CSV structure")]

\* variant: the FAILED write without its finishedAt
FailedUpdateNoFinish(message, ts) == [status |-> "FAILED", message |-> message]

\* SET #s = FAILED, #m = message, finishedAt = now
FailedUpdate(message, ts) == [status |-> "FAILED", message |-> message, finishedAt |-> ts]

\* SET #s = PENDING, #m = "Queued for processing"
PendingUpdate == [status |-> "PENDING", message |-> PlainMessage("Queued for processing")]

\* variant: the message carries a fresh id instead of the job's
QueueMessageFreshId(job_id, bucket, key) == [jobId |-> Uuid(1), bucket |-> bucket, key |-> key]

\* json.dumps({"jobId": job_id, "bucket": bucket, "key": key})
QueueMessage(job_id, bucket, key) == [jobId |-> job_id, bucket |-> bucket, key |-> key]

\* variant: the status write before the enqueue
ValidatorValidPathSwapped == <<"pending", "send">>

\* what the handler does once the header is checked: the calls in program order
ValidatorValidPath == <<"send", "pending">>

\* where the handler goes after the header check
AfterHeaderCheck(missing) == IF missing # <<>> THEN "fail_missing" ELSE ValidatorValidPath[1]

\* the handler has no try around its store and queue calls: their failure raises
ValidatorOnError(pc) == "raised"

\* the invocation is over: it returned "ok" or "failed", or it raised
ValidatorEnd(ret) == [ValIdle EXCEPT !.ret = ret]

\* An upload event arrives: job id from the key, then put_item of the initial item.
ValidatorCreate ==
  /\ impl = "two_stage"
  /\ val.pc = "idle"
  /\ hist.uploads < MaxUploads
  /\ \E f \in Files, k \in Keys, ok \in BOOLEAN :
       /\ file' = f
       /\ IF ok
          THEN /\ table' = [table EXCEPT ![JobIdOf(k)] =
                              PutItem(@, InitialItem(JobIdOf(k), Bucket, k,
                                                  TimeOf("upload", hist.uploads + 1, "startedAt")))]
               /\ val' = [ValIdle EXCEPT !.pc = "fetch", !.key = k]
          ELSE /\ table' = table
               /\ val' = ValidatorEnd(ValidatorOnError("create"))
       /\ hist' = [hist EXCEPT !.uploads = @ + 1, !.vsent = 0, !.puts = IF ok THEN 1 ELSE 0]
  /\ UNCHANGED <<impl, output, queue, conv, single, seen, reader>>

\* s3.get_object and decode; then the header check, which is local
ValidatorFetch ==
  /\ val.pc = "fetch"
  /\ \/ /\ ~HeaderRaises(file)
        /\ val' = [val EXCEPT !.pc = AfterHeaderCheck(MissingColumns(Fieldnames(file))),
                              !.missing = MissingColumns(Fieldnames(file))]
     \/ /\ HeaderRaises(file)
        /\ val' = ValidatorEnd("raised")
     \/ \E e \in FetchErrors : val' = [val EXCEPT !.pc = "fail_fetch", !.err = e]
  /\ UNCHANGED <<impl, file, table, output, queue, conv, single, hist, seen, reader>>

\* the message of the FAILED write the handler is about to make
ValidatorFailMessage ==
  IF val.pc = "fail_fetch"
  THEN Message("Could not read file", <<>>, val.err, 0, 0)
  ELSE Message("Missing required columns", val.missing, "", 0, 0)

\* update_item to FAILED (after a fetch failure or a header with missing columns)
ValidatorFail ==
  /\ val.pc \in {"fail_fetch", "fail_missing"}
  /\ \/ /\ table' = [table EXCEPT ![JobIdOf(val.key)] =
                       UpdateItem(@, JobIdOf(val.key),
                                  FailedUpdate(ValidatorFailMessage,
                                               TimeOf("upload", hist.uploads, "finishedAt")))]
        /\ val' = ValidatorEnd("failed")
     \/ /\ table' = table
        /\ val' = ValidatorEnd(ValidatorOnError(val.pc))
  /\ UNCHANGED <<impl, file, output, queue, conv, single, hist, seen, reader>>

\* the step after step i of the valid path
ValidatorAdvance(i) ==
  IF i < Len(ValidatorValidPath)
  THEN [val EXCEPT !.pc = ValidatorValidPath[i + 1]]
  ELSE ValidatorEnd("ok")

ValidatorStepIndex(pc) == CHOOSE i \in 1..Len(ValidatorValidPath) : ValidatorValidPath[i] = pc

\* sqs.send_message
ValidatorSend ==
  /\ val.pc = "send"
  /\ \/ /\ queue' = Append(queue, QueueMessage(JobIdOf(val.key), Bucket, val.key))
        /\ val' = ValidatorAdvance(ValidatorStepIndex("send"))
        /\ hist' = [hist EXCEPT !.sent = @ \cup {QueueMessage(JobIdOf(val.key), Bucket, val.key)},
                                !.vsent = @ + 1]
     \/ /\ queue' = queue
        /\ val' = ValidatorEnd(ValidatorOnError("send"))
        /\ hist' = hist
  /\ UNCHANGED <<impl, file, table, output, conv, single, seen, reader>>

\* update_item to PENDING
ValidatorPending ==
  /\ val.pc = "pending"
  /\ \/ /\ table' = [table EXCEPT ![JobIdOf(val.key)] =
                       UpdateItem(@, JobIdOf(val.key), PendingUpdate)]
        /\ val' = ValidatorAdvance(ValidatorStepIndex("pending"))
     \/ /\ table' = table
        /\ val' = ValidatorEnd(ValidatorOnError("pending"))
  /\ UNCHANGED <<impl, file, output, queue, conv, single, hist, seen, reader>>

\* ---------------------------------------------------- processor/handler.py
\* SET #s = PROCESSING, #m = "Converting CSV to JSON"
ProcessingUpdate == [status |-> "PROCESSING", message |-> PlainMessage("Converting CSV to JSON")]

\* the final SET of the Converter
CompletedUpdate(job_id, result, ts) ==
  [status |-> "COMPLETED",
   message |-> Message("Processed rows", <<>>, "", result.row_count, result.error_count),
   rowCount |-> result.row_count,
   errorCount |-> result.error_count,
   s3OutputPrefix |-> OutputPrefix(job_id),
   finishedAt |-> ts]

\* variant: the output appended to what is there instead of replacing it
ConverterPutObjectAppend(old, records) == Object(JsonDumps(old.body.items \o records, 2))

\* s3.put_object(Key=output_key, Body=json.dumps(records, indent=2)): overwrite
ConverterPutObject(old, records) == Object(JsonDumps(records, 2))

\* the Converter's calls in program order
ConverterPath == <<"processing", "fetch", "put_output", "complete">>

ConverterOnError(pc) == "raised"

\* The invocation ends. A message whose invocation raised becomes visible again;
\* one whose invocation returned is deleted, unless the queue delivers it again
\* (at-least-once delivery).
ConverterEnd(ret, again) ==
  /\ conv' = [ConvIdle EXCEPT !.ret = ret]
  /\ queue' = IF ret = "raised" \/ again THEN Append(queue, conv.msg) ELSE queue

ConverterAdvance(pc) ==
  LET i == CHOOSE n \in 1..Len(ConverterPath) : ConverterPath[n] = pc
  IN  [conv EXCEPT !.pc = ConverterPath[i + 1]]

\* A message is delivered: the handler parses it and writes PROCESSING.
ConverterProcessing ==
  /\ conv.pc = "idle"
  /\ hist.deliveries < MaxDeliveries
  /\ \E i \in 1..Len(queue) :
       LET m == queue[i]
           rest == SubSeq(queue, 1, i - 1) \o SubSeq(queue, i + 1, Len(queue))
       IN  \/ /\ table' = [table EXCEPT ![m.jobId] = UpdateItem(@, m.jobId, ProcessingUpdate)]
              /\ conv' = [ConverterAdvance("processing") EXCEPT !.msg = m, !.ret = "none"]
              /\ queue' = rest
           \/ /\ table' = table
              /\ conv' = [ConvIdle EXCEPT !.ret = ConverterOnError("processing")]
              /\ queue' = queue
  /\ hist' = [hist EXCEPT !.deliveries = @ + 1]
  /\ UNCHANGED <<impl, file, output, val, single, seen, reader>>

\* s3.get_object and decode; then the row loop, which is local
ConverterFetch ==
  /\ conv.pc = "fetch"
  /\ \/ /\ ~ReadRaises(file)
        /\ conv' = [ConverterAdvance("fetch") EXCEPT !.result = ConvertRows(file)]
        /\ queue' = queue
     \/ /\ ReadRaises(file)
        /\ ConverterEnd("raised", FALSE)
     \/ /\ \E e \in FetchErrors : conv' = [conv EXCEPT !.pc = "fail_fetch", !.err = e]
        /\ queue' = queue
  /\ UNCHANGED <<impl, file, table, output, val, single, hist, seen, reader>>

\* update_item to FAILED after a fetch failure, then raise
ConverterFail ==
  /\ conv.pc = "fail_fetch"
  /\ \/ /\ table' = [table EXCEPT ![conv.msg.jobId] =
                       UpdateItem(@, conv.msg.jobId,
                                  FailedUpdate(Message("Could not read file", <<>>, conv.err, 0, 0),
                                               TimeOf("delivery", hist.deliveries, "finishedAt")))]
        /\ ConverterEnd("raised", FALSE)
     \/ /\ table' = table
        /\ ConverterEnd(ConverterOnError("fail_fetch"), FALSE)
  /\ UNCHANGED <<impl, file, output, val, single, hist, seen, reader>>

\* s3.put_object of output.json
ConverterPutOutput ==
  /\ conv.pc = "put_output"
  /\ \/ /\ output' = [output EXCEPT ![conv.msg.jobId] = ConverterPutObject(@, conv.result.records)]
        /\ conv' = ConverterAdvance("put_output")
        /\ queue' = queue
     \/ /\ output' = output
        /\ ConverterEnd(ConverterOnError("put_output"), FALSE)
  /\ UNCHANGED <<impl, file, table, val, single, hist, seen, reader>>

\* the final update_item, then return
ConverterCompleteStep ==
  /\ conv.pc = "complete"
  /\ \/ /\ table' = [table EXCEPT ![conv.msg.jobId] =
                       UpdateItem(@, conv.msg.jobId,
                                  CompletedUpdate(conv.msg.jobId, conv.result,
                                                  TimeOf("delivery", hist.deliveries, "finishedAt")))]
        /\ \E again \in BOOLEAN : ConverterEnd("ok", again)
     \/ /\ table' = table
        /\ ConverterEnd(ConverterOnError("complete"), FALSE)
  /\ UNCHANGED <<impl, file, output, val, single, hist, reader>>

ConverterComplete == ConverterCompleteStep /\ UNCHANGED seen

\* -------------------------------------------- validator_processor/handler.py
\* validate_and_process_csv(body_text): the header check returns before the row
\* loop; the loop counts every row and keeps the valid ones
ValidateAndProcessCsv(content) ==
  LET missing == MissingColumns(Fieldnames(content))
      acc == ConvertFrom(Fieldnames(content), DataRows(content),
                         [records |-> <<>>, error_count |-> 0, inspected |-> 0])
  IN  IF missing # <<>>
      THEN [ok |-> FALSE, message |-> Message("Missing required columns", missing, "", 0, 0),
            row_count |-> 0, error_count |-> 0, records |-> <<>>, inspected |-> 0]
      ELSE [ok |-> TRUE, message |-> PlainMessage("Processed"),
            row_count |-> acc.inspected, error_count |-> acc.error_count,
            records |-> acc.records, inspected |-> acc.inspected]

\* job_item: every attribute is written, the unset ones as None / 0 / ""
SingleInitialItem(job_id, s3_source, ts) ==
  [jobId |-> job_id, status |-> "VALIDATING", s3Source |-> s3_source,
   s3OutputPrefix |-> NoPrefix, rowCount |-> 0, errorCount |-> 0,
   startedAt |-> ts, finishedAt |-> NoTime, message |-> PlainMessage("")]

\* variant: the FAILED update without finishedAt
SingleFailedUpdateNoFinish(message, ts) == [status |-> "FAILED", message |-> message]

\* {"status": "FAILED", "finishedAt": now_iso(), "message": ...}
SingleFailedUpdate(message, ts) == [status |-> "FAILED", finishedAt |-> ts, message |-> message]

\* status = "COMPLETED" if result["error_count"] == 0 else "COMPLETED_WITH_ERRORS"
SingleStatus(result) == IF result.error_count = 0 THEN "COMPLETED" ELSE "COMPLETED_WITH_ERRORS"

\* the update after the output write
SingleCompletedUpdate(job_id, result, ts) ==
  [status |-> SingleStatus(result),
   s3OutputPrefix |-> OutputPrefix(job_id),
   rowCount |-> result.row_count,
   errorCount |-> result.error_count,
   finishedAt |-> ts,
   message |-> result.message]

\* if result["row_count"] > 0 and len(result["records"]) > 0: put_object
SingleWritesOutput(result) == result.row_count > 0 /\ Len(result.records) > 0

\* s3.put_object(Body=json.dumps(records).encode("utf-8")): overwrite
SinglePutObject(old, records) == Object(JsonDumps(records, 0))

\* What a store or output failure does at each call: the initial put_item is
\* inside try/except and returns "error"; the calls of the last try block are
\* caught and turned into a FAILED write; the FAILED writes themselves raise.
SingleOnError(pc) ==
  CASE pc = "create" -> "return_error"
    [] pc \in {"put_output", "complete"} -> "fail_output"
    [] OTHER -> "raised"

\* what the invocation returns (or that it raises) when a store failure ends it
SingleErrorReturn(pc) == IF SingleOnError(pc) = "return_error" THEN "error" ELSE "raised"

SingleIdle == [pc |-> "idle", ret |-> "none", job_id |-> Uuid(MaxUploads + 1),
               err |-> "", result |-> ValidateAndProcessCsv(<<>>)]

\* the invocation is over: it returned "ok", "failed" or "error", or it raised
SingleEnd(ret) == [SingleIdle EXCEPT !.ret = ret]

\* the message of the FAILED write the handler is about to make
SingleFailMessage ==
  CASE single.pc = "fail_event" -> PlainMessage("Invalid S3 event payload")
    [] single.pc = "fail_fetch" -> Message("Failed to read S3 object", <<>>, single.err, 0, 0)
    [] single.pc = "fail_processing" -> Message("Processing error", <<>>, single.err, 0, 0)
    [] OTHER -> Message("Failed to write processed output or update job", <<>>, single.err, 0, 0)

\* An event arrives: bucket and key are read from it (or not, for a payload that
\* has none), the job id is derived, the initial item is put.
SingleCreate ==
  /\ impl = "single_stage"
  /\ single.pc = "idle"
  /\ hist.uploads < MaxUploads
  /\ \E f \in Files, k \in Keys, valid \in BOOLEAN, ok \in BOOLEAN :
       LET job_id == IF valid THEN JobIdOf(k) ELSE Uuid(hist.uploads + 1)
           s3_source == IF valid THEN S3Uri(Bucket, k) ELSE NoPrefix
       IN  /\ file' = IF valid THEN f ELSE file
           /\ IF ok
              THEN /\ table' = [table EXCEPT ![job_id] = PutItem(@, SingleInitialItem(job_id, s3_source,
                                                     TimeOf("upload", hist.uploads + 1, "startedAt")))]
                   /\ single' = [SingleIdle EXCEPT !.pc = IF valid THEN "fetch" ELSE "fail_event",
                                                   !.job_id = job_id]
              ELSE /\ table' = table
                   /\ single' = SingleEnd(SingleErrorReturn("create"))
           /\ hist' = [hist EXCEPT !.uploads = @ + 1, !.vsent = 0, !.puts = IF ok THEN 1 ELSE 0]
  /\ UNCHANGED <<impl, output, queue, val, conv, seen, reader>>

\* s3.get_object and decode; then validate_and_process_csv, which is local
SingleFetch ==
  /\ single.pc = "fetch"
  /\ \/ /\ ~ReadRaises(file)
        /\ single' = [single EXCEPT
                        !.result = ValidateAndProcessCsv(file),
                        !.pc = IF SingleWritesOutput(ValidateAndProcessCsv(file))
                               THEN "put_output" ELSE "complete"]
     \/ /\ ReadRaises(file)
        /\ single' = [single EXCEPT !.pc = "fail_processing", !.err = "csv.Error"]
     \/ \E e \in FetchErrors : single' = [single EXCEPT !.pc = "fail_fetch", !.err = e]
  /\ UNCHANGED <<impl, file, table, output, queue, val, conv, hist, seen, reader>>

\* update_job_record to FAILED, then return "failed"
SingleFail ==
  /\ single.pc \in {"fail_event", "fail_fetch", "fail_processing", "fail_output"}
  /\ \/ /\ table' = [table EXCEPT ![single.job_id] =
                       UpdateItem(@, single.job_id,
                                  SingleFailedUpdate(SingleFailMessage,
                                                     TimeOf("upload", hist.uploads, "finishedAt")))]
        /\ single' = SingleEnd("failed")
     \/ /\ table' = table
        /\ single' = SingleEnd(SingleErrorReturn(single.pc))
  /\ UNCHANGED <<impl, file, output, queue, val, conv, hist, seen, reader>>

\* s3.put_object of output.json (only when there is a valid record)
SinglePutOutput ==
  /\ single.pc = "put_output"
  /\ \/ /\ output' = [output EXCEPT ![single.job_id] = SinglePutObject(@, single.result.records)]
        /\ single' = [single EXCEPT !.pc = "complete"]
     \/ /\ output' = output
        /\ single' = [single EXCEPT !.pc = SingleOnError("put_output"), !.err = "StoreError"]
  /\ UNCHANGED <<impl, file, table, queue, val, conv, hist, seen, reader>>

\* the final update_job_record, then return "ok"
SingleComplete ==
  /\ single.pc = "complete"
  /\ \/ /\ table' = [table EXCEPT ![single.job_id] =
                       UpdateItem(@, single.job_id,
                                  SingleCompletedUpdate(single.job_id, single.result,
                                                        TimeOf("upload", hist.uploads, "finishedAt")))]
        /\ single' = SingleEnd("ok")
     \/ /\ table' = table
        /\ single' = [single EXCEPT !.pc = SingleOnError("complete"), !.err = "StoreError"]
  /\ UNCHANGED <<impl, file, output, queue, val, conv, hist, seen, reader>>

\* --------------------------------------------------- api_reader/handler.py
\* event["pathParameters"]: None or without "id" (has FALSE), or with an id,
\* which may be the empty string
EmptyId == <<"name", "">>

PathParameters ==
  { [has |-> FALSE, id |-> EmptyId] }
    \cup { [has |-> TRUE, id |-> i] : i \in JobIds \cup {EmptyId, <<"name", "unknown">>} }

\* the attributes DynamoDB holds as numbers
NumberAttributes == {"rowCount", "errorCount"}

\* a number as boto3 reads it from the table
Decimal(n) == [decimal |-> n]

\* table.get_item(Key={"jobId": job_id}).get("Item"): no item for an id the
\* table has none for; the numbers of an item come as Decimal
GetItem(tbl, job_id) ==
  IF job_id \in DOMAIN tbl /\ Exists(tbl[job_id])
  THEN [a \in DOMAIN tbl[job_id] |->
          IF a \in NumberAttributes THEN Decimal(tbl[job_id][a]) ELSE tbl[job_id][a]]
  ELSE NoItem

\* DecimalEncoder.default: an integer-valued Decimal becomes an int
DecimalEncoder(d) == d.decimal

\* json.dumps(item, cls=DecimalEncoder)
JsonDumpsItem(item) ==
  [a \in DOMAIN item |-> IF a \in NumberAttributes THEN DecimalEncoder(item[a]) ELSE item[a]]

\* the response of the handler: statusCode and the JSON body
Response(code, error, job_id, item) ==
  [statusCode |-> code, body |-> [error |-> error, jobId |-> job_id, item |-> item]]

\* variant: only an absent id counts as missing
NoJobIdAbsentOnly(params) == ~params.has

\* not job_id
NoJobId(params) == ~params.has \/ params.id = EmptyId

\* lambda_handler(event, context): fails is whether get_item raises
ReaderRespond(params, tbl, fails) ==
  IF NoJobId(params)
  THEN Response(400, "Missing job ID", EmptyId, NoItem)
  ELSE IF fails
  THEN Response(500, "str(e)", EmptyId, NoItem)
  ELSE IF ~Exists(GetItem(tbl, params.id))
  THEN Response(404, "Job not found", params.id, NoItem)
  ELSE Response(200, "", EmptyId, JsonDumpsItem(GetItem(tbl, params.id)))

ReaderIdle == [params |-> [has |-> FALSE, id |-> EmptyId], lookups |-> 0, failed |-> FALSE,
               response |-> Response(0, "", EmptyId, NoItem)]

\* GET /jobs/{id}: the whole handler, whose one external call is get_item
ReaderGet ==
  /\ \E params \in PathParameters, fails \in BOOLEAN :
       reader' = [params |-> params,
                  lookups |-> IF NoJobId(params) THEN 0 ELSE 1,
                  failed |-> ~NoJobId(params) /\ fails,
                  response |-> ReaderRespond(params, table, fails)]
  /\ UNCHANGED <<impl, file, table, output, queue, val, conv, single, hist, seen>>

Init ==
  /\ impl \in {"two_stage", "single_stage"}
  /\ file = <<>>
  /\ table = [j \in JobIds |-> NoItem]
  /\ output = [j \in JobIds |-> NoObject]
  /\ queue = <<>>
  /\ val = ValIdle
  /\ conv = ConvIdle
  /\ single = SingleIdle
  /\ hist = HistInit
  /\ seen = SeenInit
  /\ reader = ReaderIdle

Next ==
  \/ ValidatorCreate
  \/ ValidatorFetch
  \/ ValidatorFail
  \/ ValidatorSend
  \/ ValidatorPending
  \/ ConverterProcessing
  \/ ConverterFetch
  \/ ConverterFail
  \/ ConverterPutOutput
  \/ ConverterComplete
  \/ SingleCreate
  \/ SingleFetch
  \/ SingleFail
  \/ SinglePutOutput
  \/ SingleComplete

Spec == Init /\ [][Next]_vars

\* ------------------------------------------------------------ redelivery
\* The Converter's side of one upload: the Validator has sent its message and is
\* about to write PENDING, the file stays as it is, and the message is delivered
\* up to MaxDeliveries times. seen records what each return left behind.
InitRedelivery ==
  /\ impl = "two_stage"
  /\ file \in { f \in Files : ~ReadRaises(f) /\ MissingColumns(Fieldnames(f)) = <<>> }
  /\ \E k \in Keys :
       /\ table = [j \in JobIds |->
                    IF j = JobIdOf(k)
                    THEN PutItem(NoItem, InitialItem(j, Bucket, k, TimeOf("upload", 1, "startedAt")))
                    ELSE NoItem]
       /\ queue = <<QueueMessage(JobIdOf(k), Bucket, k)>>
       /\ val = [ValIdle EXCEPT !.pc = "pending", !.key = k]
       /\ hist = [HistInit EXCEPT !.uploads = 1, !.puts = 1, !.vsent = 1,
                                  !.sent = {QueueMessage(JobIdOf(k), Bucket, k)}]
  /\ output = [j \in JobIds |-> NoObject]
  /\ conv = ConvIdle
  /\ single = SingleIdle
  /\ seen = SeenInit
  /\ reader = ReaderIdle

RedeliveryComplete ==
  /\ ConverterCompleteStep
  /\ seen' = IF conv'.ret = "ok"
             THEN LET snap == Snapshot(table'[conv.msg.jobId], output'[conv.msg.jobId])
                  IN  [n |-> seen.n + 1,
                       first |-> IF seen.n = 0 THEN snap ELSE seen.first,
                       last |-> snap]
             ELSE seen

NextRedelivery ==
  \/ ValidatorPending
  \/ ConverterProcessing
  \/ ConverterFetch
  \/ ConverterFail
  \/ ConverterPutOutput
  \/ RedeliveryComplete

SpecRedelivery == InitRedelivery /\ [][NextRedelivery]_vars

\* ------------------------------------------------------------------ liveness
\* The two-stage pipeline when nothing fails: every store, queue and object call
\* succeeds and every file is readable. The queue delivers every message it
\* holds (a message is counted against MaxDeliveries before it is accepted, so
\* none waits for a delivery the bound forbids), and an invocation that has
\* started runs on to its end. Upload events come when they come: no fairness.
Deliverable ==
  hist.deliveries + Len(queue) + (IF val.pc \in {"fetch", "send"} THEN 1 ELSE 0) <= MaxDeliveries

LiveValidatorCreate == ValidatorCreate /\ val'.pc = "fetch" /\ ~ReadRaises(file') /\ Deliverable'

LiveValidatorFetch == ValidatorFetch /\ val'.pc \in {"fail_missing", "send", "pending"}

LiveValidatorFail == ValidatorFail /\ val'.ret = "failed"

LiveValidatorSend == ValidatorSend /\ val'.ret # "raised"

LiveValidatorPending == ValidatorPending /\ val'.ret # "raised"

LiveConverterProcessing == ConverterProcessing /\ conv'.pc # "idle"

LiveConverterFetch == ConverterFetch /\ conv'.pc = "put_output"

LiveConverterPutOutput == ConverterPutOutput /\ conv'.pc = "complete"

LiveConverterComplete == ConverterComplete /\ conv'.ret = "ok" /\ Deliverable'

NextLive ==
  \/ LiveValidatorCreate
  \/ LiveValidatorFetch
  \/ LiveValidatorFail
  \/ LiveValidatorSend
  \/ LiveValidatorPending
  \/ LiveConverterProcessing
  \/ LiveConverterFetch
  \/ LiveConverterPutOutput
  \/ LiveConverterComplete

FairLive ==
  /\ WF_vars(LiveValidatorFetch)
  /\ WF_vars(LiveValidatorFail)
  /\ WF_vars(LiveValidatorSend)
  /\ WF_vars(LiveValidatorPending)
  /\ WF_vars(LiveConverterProcessing)
  /\ WF_vars(LiveConverterFetch)
  /\ WF_vars(LiveConverterPutOutput)
  /\ WF_vars(LiveConverterComplete)

InitLive == Init /\ impl = "two_stage"

SpecLive == InitLive /\ [][NextLive]_vars /\ FairLive

\* ---------------------------------------------------------------- conversion
\* The row loop of both implementations over files with a valid header: the
\* columns in any order, an extra column, rows with an empty cell, a missing
\* cell or a cell too many, and blank lines. The Converter has written
\* PROCESSING (the single-stage handler has put its initial item) and is about
\* to fetch the file.
CsvMaxRows == 2

CsvHeaderLines ==
  { <<"id", "value", "timestamp">>,
    <<"timestamp", "id", "value">>,
    <<"id", "value", "timestamp", "note">> }

CsvDataLines ==
  { <<"1", "10", "t">>,
    <<"2", "", "t">>,
    <<"3", "30">>,
    <<"4", "40", "t", "x">>,
    <<>> }

CsvFiles == { <<h>> \o rows : h \in CsvHeaderLines, rows \in SeqsUpTo(CsvDataLines, CsvMaxRows) }

InitCsv ==
  /\ impl \in {"two_stage", "single_stage"}
  /\ file \in CsvFiles
  /\ \E k \in Keys :
       /\ table = [j \in JobIds |->
                    IF j # JobIdOf(k) THEN NoItem
                    ELSE IF impl = "two_stage"
                    THEN UpdateItem(PutItem(NoItem, InitialItem(j, Bucket, k, TimeOf("upload", 1, "startedAt"))),
                                    j, ProcessingUpdate)
                    ELSE PutItem(NoItem, SingleInitialItem(j, S3Uri(Bucket, k), TimeOf("upload", 1, "startedAt")))]
       /\ conv = IF impl = "two_stage"
                 THEN [ConvIdle EXCEPT !.pc = "fetch", !.msg = QueueMessage(JobIdOf(k), Bucket, k)]
                 ELSE ConvIdle
       /\ single = IF impl = "single_stage"
                   THEN [SingleIdle EXCEPT !.pc = "fetch", !.job_id = JobIdOf(k)]
                   ELSE SingleIdle
       /\ hist = [HistInit EXCEPT !.uploads = 1, !.puts = 1,
                                  !.deliveries = IF impl = "two_stage" THEN 1 ELSE 0,
                                  !.vsent = IF impl = "two_stage" THEN 1 ELSE 0,
                                  !.sent = IF impl = "two_stage"
                                           THEN {QueueMessage(JobIdOf(k), Bucket, k)} ELSE {}]
  /\ output = [j \in JobIds |-> NoObject]
  /\ queue = <<>>
  /\ val = [ValIdle EXCEPT !.ret = IF impl = "two_stage" THEN "ok" ELSE "none"]
  /\ seen = SeenInit
  /\ reader = ReaderIdle

NextCsv ==
  \/ ConverterFetch
  \/ ConverterFail
  \/ ConverterPutOutput
  \/ ConverterComplete
  \/ SingleFetch
  \/ SingleFail
  \/ SinglePutOutput
  \/ SingleComplete

SpecCsv == InitCsv /\ [][NextCsv]_vars

\* ------------------------------------------------------------- status reader
\* Status queries arriving at any time while a job is converted (either
\* implementation, from the fetch of the file to the final status write).
NextReader == NextCsv \/ ReaderGet

SpecReader == InitCsv /\ [][NextReader]_vars

\* ==================================================================== properties
\* The transition graph of the job status: VALIDATING -> PENDING -> PROCESSING
\* -> {COMPLETED, COMPLETED_WITH_ERRORS, FAILED}, and VALIDATING -> FAILED.
StatusEdges ==
  { <<"VALIDATING", "PENDING">>, <<"VALIDATING", "FAILED">>,
    <<"PENDING", "PROCESSING">>,
    <<"PROCESSING", "COMPLETED">>, <<"PROCESSING", "COMPLETED_WITH_ERRORS">>,
    <<"PROCESSING", "FAILED">> }

\* b can be reached from a along one or more edges
Reaches(a, b) ==
  \/ <<a, b>> \in StatusEdges
  \/ \E m \in {"PENDING", "PROCESSING"} :
       /\ <<a, m>> \in StatusEdges
       /\ \/ <<m, b>> \in StatusEdges
          \/ \E m2 \in {"PROCESSING"} : <<m, m2>> \in StatusEdges /\ <<m2, b>> \in StatusEdges

\* one upload event only, handled by the two-stage pipeline
OneUpload == impl = "two_stage" /\ hist.uploads = 1 /\ hist'.uploads = 1

\* C1: for one upload event and its queue message, however often delivered and
\* however interleaved with the Validator, no write replaces a job's status by
\* one that lies earlier in the graph.
C1_NoBackwardWrite ==
  [][ OneUpload =>
        \A j \in JobIds : ~Reaches(StatusOf(table'[j]), StatusOf(table[j])) ]_vars

\* C2: FAILED, COMPLETED and COMPLETED_WITH_ERRORS are absorbing: for one upload
\* event, once a job's status is terminal no step of the Validator or the
\* Converter changes it.
C2_TerminalAbsorbing ==
  [][ OneUpload =>
        \A j \in JobIds :
          StatusOf(table[j]) \in Terminal => StatusOf(table'[j]) = StatusOf(table[j]) ]_vars

\* C3: in every state of the two-stage pipeline a job record has finishedAt set
\* if and only if its status is terminal.
C3_FinishedIffTerminal ==
  impl = "two_stage" =>
    \A j \in JobIds :
      Exists(table[j]) => (IsSet(table[j], "finishedAt") <=> StatusOf(table[j]) \in Terminal)

\* at least one valid record has been written to the job's output.json
ValidRecordWritten(j) == output[j].exists /\ Len(output[j].body.items) >= 1

\* C4: a job record's s3OutputPrefix is set if and only if its status is
\* COMPLETED or COMPLETED_WITH_ERRORS and at least one valid record was written
\* to its output.
C4_PrefixIffOutput ==
  \A j \in JobIds :
    Exists(table[j]) =>
      (IsSet(table[j], "s3OutputPrefix")
         <=> (StatusOf(table[j]) \in SuccessTerminal /\ ValidRecordWritten(j)))

\* C5: over an unchanged file, every return of the Converter for the same
\* message leaves the status, rowCount, errorCount, s3OutputPrefix and
\* output.json that its first return left.
C5_RedeliveryIdempotent == seen.n >= 2 => seen.last = seen.first

\* the message was delivered twice and the Converter returned both times, for a
\* file with a valid record
C5_Witness ==
  /\ seen.n >= 2
  /\ seen.first.status = "COMPLETED"
  /\ seen.first.rowCount >= 1
  /\ seen.first.object.exists
  /\ Len(seen.first.object.body.items) >= 1

\* the set of the elements of a sequence
Range(seq) == { seq[i] : i \in 1..Len(seq) }

\* the item is FAILED, finished, and its message lists exactly the required
\* columns the header lacks
FailedForMissing(item, headers) ==
  /\ StatusOf(item) = "FAILED"
  /\ IsSet(item, "finishedAt")
  /\ item["message"].text = "Missing required columns"
  /\ Range(item["message"].cols) = Range(REQUIRED_COLUMNS) \ Range(headers)

\* C6: in both implementations, an invocation that fetched a file whose header
\* lacks a required column and whose store writes succeed leaves the job FAILED
\* with finishedAt set and a message listing exactly the missing columns, sends
\* no queue message and inspects no data row.
C6_MissingColumnsFail ==
  [][ /\ (val.pc = "fail_missing" /\ val'.ret = "failed") =>
           /\ FailedForMissing(table'[JobIdOf(val.key)], Fieldnames(file))
           /\ hist'.vsent = 0
           /\ queue' = queue
      /\ (single.pc = "complete" /\ ~single.result.ok /\ single'.ret = "ok") =>
           /\ FailedForMissing(table'[single.job_id], Fieldnames(file))
           /\ single.result.inspected = 0
           /\ queue' = queue ]_vars

\* the item is FAILED, finished, and its message carries the reason of the failure
FailedForFetch(item, reason) ==
  /\ StatusOf(item) = "FAILED"
  /\ IsSet(item, "finishedAt")
  /\ item["message"].reason = reason
  /\ reason \in FetchErrors

\* C7: when the object fetch fails, the FAILED write (unless the store fails it)
\* leaves the job FAILED with finishedAt set and the reason in the message; the
\* Validator (and the single-stage handler) then returns "failed" having sent no
\* message; the Converter raises, and its message is back in the queue.
C7_FetchFailure ==
  [][ /\ (val.pc = "fail_fetch" /\ val'.pc = "idle") =>
           \/ table' = table /\ val'.ret = "raised"
           \/ /\ FailedForFetch(table'[JobIdOf(val.key)], val.err)
              /\ val'.ret = "failed"
              /\ hist'.vsent = 0
              /\ queue' = queue
      /\ (conv.pc = "fail_fetch" /\ conv'.pc = "idle") =>
           /\ conv'.ret = "raised"
           /\ queue' = Append(queue, conv.msg)
           /\ table' = table \/ FailedForFetch(table'[conv.msg.jobId], conv.err)
      /\ (single.pc = "fail_fetch" /\ single'.pc = "idle") =>
           \/ table' = table /\ single'.ret = "raised"
           \/ FailedForFetch(table'[single.job_id], single.err) /\ single'.ret = "failed" ]_vars

\* the Converter's fetch failed, it wrote FAILED and raised, and its message is
\* in the queue again
C7_Witness ==
  /\ conv.pc = "idle" /\ conv.ret = "raised"
  /\ Len(queue) >= 1
  /\ \E j \in JobIds :
       /\ StatusOf(table[j]) = "FAILED"
       /\ table[j]["message"].text = "Could not read file"
       /\ table[j]["finishedAt"] = TimeOf("delivery", hist.deliveries, "finishedAt")

\* a handler is past its first store call
ValidatorRunning == val.pc # "idle"

SingleRunning == single.pc # "idle"

\* C8: a job record comes into existence only by the put_item that opens a
\* Validator (or single-stage) invocation, in status VALIDATING; that put is the
\* invocation's first store write and its only put, and the fetch and the header
\* check come after it.
C8_CreatedOnceFirst ==
  [][ /\ \A j \in JobIds :
           (~Exists(table[j]) /\ Exists(table'[j])) =>
              /\ (val.pc = "idle" /\ val'.pc = "fetch") \/ (single.pc = "idle" /\ SingleRunning')
              /\ StatusOf(table'[j]) = "VALIDATING"
      /\ (val.pc = "idle" /\ ValidatorRunning') =>
           /\ StatusOf(table'[JobIdOf(val'.key)]) = "VALIDATING"
           /\ val'.pc = "fetch"
      /\ (single.pc = "idle" /\ SingleRunning') =>
           /\ StatusOf(table'[single'.job_id]) = "VALIDATING"
           /\ single'.pc \in {"fetch", "fail_event"}
      /\ ValidatorRunning' => (hist'.puts = 1 /\ Exists(table'[JobIdOf(val'.key)]))
      /\ SingleRunning' => (hist'.puts = 1 /\ Exists(table'[single'.job_id])) ]_vars

\* a record exists, created by the second upload of the same file name, while the
\* Converter works on the message of the first
C8_Witness ==
  /\ hist.uploads = 2 /\ hist.puts = 1
  /\ val.pc = "fetch"
  /\ conv.pc = "fetch"
  /\ StatusOf(table[JobIdOf(val.key)]) = "VALIDATING"

\* C9: whenever a job's status is PENDING a message for that job has been sent,
\* and the Validator is at its PENDING write only after its own enqueue succeeded.
C9_EnqueueBeforePending ==
  /\ \A j \in JobIds :
       StatusOf(table[j]) = "PENDING" => \E m \in hist.sent : m.jobId = j
  /\ val.pc = "pending" => hist.vsent = 1

\* the job is PENDING and its message waits in the queue
C9_Witness ==
  \E j \in JobIds :
    /\ StatusOf(table[j]) = "PENDING"
    /\ \E i \in 1..Len(queue) : queue[i].jobId = j
    /\ val.ret = "ok"

\* C10: no invocation swallows a failure of the status store or of the output
\* write: none returns normally after one, and none turns one into a FAILED write.
C10_PersistencePropagates ==
  /\ single.ret # "error"
  /\ single.pc # "fail_output"
  /\ val.ret # "error"
  /\ conv.ret # "error"

\* every job record there is has a terminal status
AllTerminal == \A j \in JobIds : Exists(table[j]) => StatusOf(table[j]) \in Terminal

\* C11: when nothing fails and every message is delivered, the job records
\* eventually all have a terminal status and keep it: once the Validator and
\* every delivery have finished, no record is VALIDATING, PENDING or PROCESSING.
C11_EventuallyTerminal == <>[]AllTerminal

\* A data row of a file: a line after the header that is not blank.
IsDataRow(line) == line # <<>>

\* the cell of a line under the column named col ("" when the line has none)
CellOf(headers, line, col) ==
  IF \E i \in 1..Len(headers) : headers[i] = col /\ i <= Len(line)
  THEN line[CHOOSE i \in 1..Len(headers) : headers[i] = col]
  ELSE ""

\* every required field of the line is present and non-empty
RowIsValid(headers, line) == \A col \in {"id", "value", "timestamp"} : CellOf(headers, line, col) # ""

\* the positions of a file's lines that hold a valid / an invalid data row
ValidRowsOf(content) ==
  { i \in 2..Len(content) : IsDataRow(content[i]) /\ RowIsValid(content[1], content[i]) }

InvalidRowsOf(content) ==
  { i \in 2..Len(content) : IsDataRow(content[i]) /\ ~RowIsValid(content[1], content[i]) }

\* the counts are those of the file: rowCount = valid + invalid = data rows,
\* errorCount = invalid
CountsMatch(row_count, error_count, content) ==
  /\ row_count = Cardinality(ValidRowsOf(content)) + Cardinality(InvalidRowsOf(content))
  /\ error_count = Cardinality(InvalidRowsOf(content))
  /\ 0 <= error_count /\ error_count <= row_count
  /\ row_count = Cardinality({ i \in 2..Len(content) : IsDataRow(content[i]) })

\* the conversion of the invocation has run over the file
ConverterConverted == conv.pc \in {"put_output", "complete"}

SingleConverted == single.pc \in {"put_output", "complete"}

\* C12: under a valid header, the counts the conversion reports (in the handler
\* and, once written, in the job record) are rowCount = valid records + invalid
\* rows = data rows of the file and errorCount = invalid rows, in both
\* implementations.
C12_CountsAddUp ==
  /\ ConverterConverted =>
       /\ CountsMatch(conv.result.row_count, conv.result.error_count, file)
       /\ Len(conv.result.records) = Cardinality(ValidRowsOf(file))
  /\ SingleConverted =>
       /\ CountsMatch(single.result.row_count, single.result.error_count, file)
       /\ Len(single.result.records) = Cardinality(ValidRowsOf(file))
  /\ \A j \in JobIds :
       StatusOf(table[j]) \in SuccessTerminal =>
         CountsMatch(table[j]["rowCount"], table[j]["errorCount"], file)

\* a file with one valid record and one invalid row has been converted and its
\* counts are in the job record
C12_Witness ==
  /\ Cardinality(ValidRowsOf(file)) = 1
  /\ Cardinality(InvalidRowsOf(file)) = 1
  /\ \E j \in JobIds :
       /\ StatusOf(table[j]) \in SuccessTerminal
       /\ table[j]["rowCount"] = 2
       /\ table[j]["errorCount"] = 1

\* the records of a file: its valid data rows in the order of the file, each
\* with the three cells as they stand in the line
ExpectedRecords(content) ==
  LET valid == SelectSeq(Tail(content),
                         LAMBDA l : IsDataRow(l) /\ RowIsValid(content[1], l))
  IN  [i \in 1..Len(valid) |->
         [id |-> CellOf(content[1], valid[i], "id"),
          value |-> CellOf(content[1], valid[i], "value"),
          timestamp |-> CellOf(content[1], valid[i], "timestamp")]]

\* C13: the records the conversion emits (in the handler and, once written, in
\* output.json) are exactly the data rows whose three required fields are
\* present and non-empty, in input order, with the cells unchanged; every other
\* data row is counted as an error and the rows after it are still converted.
C13_RowConversion ==
  /\ ConverterConverted =>
       /\ conv.result.records = ExpectedRecords(file)
       /\ conv.result.error_count = Cardinality(InvalidRowsOf(file))
  /\ SingleConverted =>
       /\ single.result.records = ExpectedRecords(file)
       /\ single.result.error_count = Cardinality(InvalidRowsOf(file))
  /\ \A j \in JobIds : output[j].exists => output[j].body.items = ExpectedRecords(file)

\* an invalid row came first and the valid row after it is in output.json, read
\* under a header whose columns are not in the order id, value, timestamp
C13_Witness ==
  /\ Len(file) = 3
  /\ file[1] = <<"timestamp", "id", "value">>
  /\ 2 \in InvalidRowsOf(file)
  /\ 3 \in ValidRowsOf(file)
  /\ \E j \in JobIds :
       /\ output[j].exists
       /\ output[j].body.items = << [id |-> "10", value |-> "t", timestamp |-> "1"] >>

\* the request names no job: the id path parameter is missing or empty
RequestWithoutId(params) == ~params.has \/ params.id = <<"name", "">>

\* the record the store holds for an id, if any
RecordOf(tbl, id) == IF id \in DOMAIN tbl THEN tbl[id] ELSE NoItem

\* C14: every request handled by the Status Reader gets exactly one outcome and
\* the store is left as it was: 400 without a lookup for a missing or empty id,
\* 500 with an error when the lookup fails, 404 with "Job not found" and the id
\* when the store has no record for it, 200 with the record as body otherwise.
C14_ReaderOutcomes ==
  [][ reader' # reader =>
        LET p == reader'.params
            r == reader'.response
        IN  /\ table' = table
            /\ r.statusCode \in {200, 400, 404, 500}
            /\ RequestWithoutId(p) => (r.statusCode = 400 /\ reader'.lookups = 0)
            /\ (~RequestWithoutId(p) /\ reader'.failed) =>
                 (r.statusCode = 500 /\ r.body.error # "")
            /\ (~RequestWithoutId(p) /\ ~reader'.failed /\ ~Exists(RecordOf(table, p.id))) =>
                 (r.statusCode = 404 /\ r.body.error = "Job not found" /\ r.body.jobId = p.id)
            /\ (~RequestWithoutId(p) /\ ~reader'.failed /\ Exists(RecordOf(table, p.id))) =>
                 (r.statusCode = 200 /\ r.body.item = table[p.id]) ]_vars

\* a finished job with an invalid row was queried and its record returned, the
\* counts as numbers
C14_Witness ==
  /\ reader.response.statusCode = 200
  /\ reader.lookups = 1
  /\ StatusOf(reader.response.body.item) = "COMPLETED_WITH_ERRORS"
  /\ reader.response.body.item["rowCount"] = 2
  /\ reader.response.body.item["errorCount"] = 1
  /\ reader.response.body.item = table[reader.params.id]

\* the attributes of a record that a step sets or changes
ChangedAttributes(j) ==
  { a \in DOMAIN table'[j] : a \notin DOMAIN table[j] \/ table'[j][a] # table[j][a] }

\* the step is the initial create of an invocation (its put_item)
IsCreateStep == hist'.uploads # hist.uploads

\* the attributes the update of the step names in its SET expression
NamedByStep ==
  CASE val' # val /\ val.pc = "pending" -> {"status", "message"}
    [] val' # val /\ val.pc # "pending" -> {"status", "message", "finishedAt"}
    [] conv' # conv /\ conv.pc = "idle" -> {"status", "message"}
    [] conv' # conv /\ conv.pc = "fail_fetch" -> {"status", "message", "finishedAt"}
    [] conv' # conv /\ conv.pc \notin {"idle", "fail_fetch"} ->
         {"status", "message", "rowCount", "errorCount", "s3OutputPrefix", "finishedAt"}
    [] single' # single /\ single.pc = "complete" ->
         {"status", "message", "rowCount", "errorCount", "s3OutputPrefix", "finishedAt"}
    [] single' # single /\ single.pc # "complete" -> {"status", "message", "finishedAt"}
    [] OTHER -> {}

\* C15: every write to a job record after its create is a field-level update:
\* no attribute is removed, jobId, startedAt and s3Source stay as the create
\* wrote them, and only attributes the update names change.
C15_FieldLevelUpdates ==
  [][ \A j \in JobIds :
        (table'[j] # table[j] /\ ~IsCreateStep) =>
          /\ DOMAIN table[j] \subseteq DOMAIN table'[j]
          /\ \A a \in {"jobId", "startedAt", "s3Source"} \cap DOMAIN table[j] :
               table'[j][a] = table[j][a]
          /\ ChangedAttributes(j) \subseteq NamedByStep ]_vars

\* the Converter has completed the job of the first upload, and the record still
\* has the startedAt and s3Source of its create
C15_Witness ==
  /\ impl = "two_stage"
  /\ conv.ret = "ok"
  /\ \E k \in Keys :
       /\ StatusOf(table[JobIdOf(k)]) = "COMPLETED"
       /\ table[JobIdOf(k)]["startedAt"] = TimeOf("upload", 1, "startedAt")
       /\ table[JobIdOf(k)]["s3Source"] = S3Uri(Bucket, k)
       /\ Has(table[JobIdOf(k)], "rowCount")

\* the records of the run that takes the step: those of the invocation that
\* writes the status
RecordsOfRun == IF conv' # conv THEN conv.result.records ELSE single.result.records

\* C16: whenever a job's status is COMPLETED or COMPLETED_WITH_ERRORS its
\* output.json exists, and when a run writes that status the object holds
\* exactly the valid records of the run, in order (the empty array when there is
\* none): the output is written before the status, and no output of an earlier
\* run is left in place.
C16_OutputMatchesRun ==
  [][ \A j \in JobIds :
        /\ StatusOf(table'[j]) \in SuccessTerminal => output'[j].exists
        /\ (table'[j] # table[j] /\ StatusOf(table'[j]) \in SuccessTerminal) =>
             output'[j].body.items = RecordsOfRun ]_vars

\* C17: a create for a job id that already has a record, whatever its status,
\* replaces the whole record: right after it the record is VALIDATING with a new
\* startedAt, and no finishedAt, rowCount, errorCount or s3OutputPrefix of the
\* prior run remains on it.
C17_DuplicateOverwrites ==
  [][ \A j \in JobIds :
        (IsCreateStep /\ Exists(table[j]) /\ table'[j] # table[j]) =>
          /\ StatusOf(table'[j]) = "VALIDATING"
          /\ table'[j]["startedAt"] = TimeOf("upload", hist'.uploads, "startedAt")
          /\ table'[j]["startedAt"] # table[j]["startedAt"]
          /\ ~IsSet(table'[j], "finishedAt")
          /\ ~IsSet(table'[j], "s3OutputPrefix")
          /\ \A a \in {"rowCount", "errorCount"} : Has(table'[j], a) => table'[j][a] = 0 ]_vars

\* the second upload has just replaced the record of a job whose earlier run had
\* written its output
C17_Witness ==
  /\ hist.uploads = 2
  /\ hist.puts = 1
  /\ val.pc = "fetch" \/ single.pc = "fetch"
  /\ \E j \in JobIds :
       /\ StatusOf(table[j]) = "VALIDATING"
       /\ table[j]["startedAt"] = TimeOf("upload", 2, "startedAt")
       /\ output[j].exists

\* the header of the file has all of id, value, timestamp
HeaderComplete(content) ==
  content # <<>> /\ {"id", "value", "timestamp"} \subseteq Range(content[1])

\* a Validator invocation ends with this step
ValidatorEnds == val.pc # "idle" /\ val'.pc = "idle"

\* C18: a Validator invocation sends at most one message; one that returns "ok"
\* has sent exactly one and its file's header is complete; one that returns
\* "failed" has sent none, after a failed fetch or for an incomplete header. The
\* message sent names the record the invocation created and the bucket and key
\* of its upload event.
C18_OneMessagePerValidation ==
  [][ /\ hist'.vsent <= 1
      /\ ValidatorEnds =>
           /\ val'.ret = "ok" => (hist'.vsent = 1 /\ HeaderComplete(file))
           /\ val'.ret = "failed" =>
                (hist'.vsent = 0 /\ (val.pc = "fail_fetch" \/ ~HeaderComplete(file)))
           /\ hist'.vsent = 1 => HeaderComplete(file)
      /\ (val' # val /\ queue' # queue) =>
           /\ Len(queue') = Len(queue) + 1
           /\ SubSeq(queue', 1, Len(queue)) = queue
           /\ LET m == queue'[Len(queue')]
              IN  /\ m.bucket = Bucket
                  /\ m.key = val.key
                  /\ Exists(table[m.jobId])
                  /\ table[m.jobId]["jobId"] = m.jobId
                  /\ table[m.jobId]["startedAt"] = TimeOf("upload", hist.uploads, "startedAt")
                  /\ table[m.jobId]["s3Source"] = S3Uri(m.bucket, m.key) ]_vars

\* two uploads have been validated and each has its message in the queue
C18_Witness ==
  /\ hist.uploads = 2
  /\ val.ret = "ok"
  /\ hist.vsent = 1
  /\ Len(queue) = 2
  /\ HeaderComplete(file)

\* the messages waiting in the queue and the one the Converter is working on
MessagesInFlight == Range(queue') \cup (IF conv'.pc # "idle" THEN {conv'.msg} ELSE {})

\* C19: records are never deleted, every record has the jobId, startedAt and
\* s3Source of its create, every message waiting or being processed was sent by
\* a Validator and names a record that exists, and no step of the Converter
\* brings a record into existence.
C19_ConverterUpdatesExisting ==
  [][ /\ \A j \in JobIds :
           /\ Exists(table[j]) => Exists(table'[j])
           /\ Exists(table'[j]) =>
                /\ {"jobId", "startedAt", "s3Source"} \subseteq DOMAIN table'[j]
                /\ table'[j]["jobId"] = j
                /\ IsSet(table'[j], "startedAt")
           /\ (conv' # conv /\ ~Exists(table[j])) => ~Exists(table'[j])
      /\ \A m \in MessagesInFlight :
           /\ m \in hist'.sent
           /\ Exists(table'[m.jobId])
           /\ table'[m.jobId]["s3Source"] = S3Uri(m.bucket, m.key) ]_vars

\* the Converter has written PROCESSING on the record the Validator created and
\* is about to complete it
C19_Witness ==
  /\ conv.pc = "complete"
  /\ StatusOf(table[conv.msg.jobId]) = "PROCESSING"
  /\ table[conv.msg.jobId]["startedAt"] = TimeOf("upload", 1, "startedAt")
  /\ table[conv.msg.jobId]["s3Source"] = S3Uri(conv.msg.bucket, conv.msg.key)
  /\ conv.msg \in hist.sent

\* a single-stage invocation ends with this step
SingleEnds == single.pc # "idle" /\ single'.pc = "idle"

\* C20: a single-stage invocation that returns leaves its job record terminal
\* with finishedAt set, whichever path it took; it returns "ok" only with the
\* record COMPLETED or COMPLETED_WITH_ERRORS; it ends without returning only when
\* a store write failed; and the single-stage handler never writes PENDING or
\* PROCESSING.
C20_SingleStageTerminal ==
  [][ /\ SingleEnds =>
           /\ single'.ret \in {"ok", "failed"} =>
                /\ StatusOf(table'[single.job_id]) \in Terminal
                /\ IsSet(table'[single.job_id], "finishedAt")
           /\ single'.ret = "ok" => StatusOf(table'[single.job_id]) \in SuccessTerminal
           /\ single'.ret \notin {"ok", "failed"} => table' = table
      /\ impl = "single_stage" =>
           \A j \in JobIds : StatusOf(table'[j]) \notin {"PENDING", "PROCESSING"} ]_vars

\* the output write (or the final update) failed, the handler recorded FAILED and
\* returned "failed"
C20_Witness ==
  /\ single.ret = "failed"
  /\ \E j \in JobIds :
       /\ StatusOf(table[j]) = "FAILED"
       /\ IsSet(table[j], "finishedAt")
       /\ table[j]["message"].text = "Failed to write processed output or update job"
       /\ ~output[j].exists

====
